---- MODULE Spec2Model ----
(***************************************************************************)
(* Model of final_version_of_the_bot.py: the Field/Phone/Birthday value    *)
(* types, Record, AddressBook (an insertion-ordered dict), the command     *)
(* handlers wrapped by input_error, and the command loop of main().        *)
(*                                                                         *)
(* Strings that the program inspects character by character (phone and     *)
(* birthday arguments) are sequences of one-character strings.  Names and  *)
(* command words are only compared for equality and are TLA+ strings.      *)
(* A line of input is the sequence of tokens str.split() yields.           *)
(***************************************************************************)
EXTENDS Integers, Sequences, FiniteSets, TLC

VARIABLES
    book,                \* AddressBook.data: records in dict (insertion) order
    output,              \* what the last print() wrote
    pc,                  \* "prompt": at input(); "exited": after break;
                         \* "crashed": an exception left main()
    command,             \* the command word of the line read last, lower-cased
    main_args,           \* the arguments of that line (args in main)
    current_date,        \* datetime.today().date() in get_upcoming_birthdays, when
                         \* the last command was birthdays (NullDate otherwise)
    congratulation_list, \* what that call returned (empty otherwise)
    firstInserted,       \* history: names in the order of their first insertion ever
    lastInserted,        \* history: names in the order of their latest insertion
    raw,                 \* the argument of the last Phone(...) construction probed
    phone                \* its outcome

vars == <<book, output, pc, command, main_args, current_date, congratulation_list,
          firstInserted, lastInserted, raw, phone>>

----------------------------------------------------------------------------
(* Characters and str methods *)

AsciiDigits == {"0", "1", "2", "3", "4", "5", "6", "7", "8", "9"}

\* Characters outside ASCII for which Python's str.isdigit() is true:
\* ARABIC-INDIC DIGIT THREE (U+0663) and SUPERSCRIPT TWO (U+00B2).
UnicodeDigits == {"U+0663", "U+00B2"}

\* Characters for which str.isdigit() is false.
OtherChars == {"a", "-", ".", "+"}

DigitValue(c) ==
    CASE c = "0" -> 0 [] c = "1" -> 1 [] c = "2" -> 2 [] c = "3" -> 3
      [] c = "4" -> 4 [] c = "5" -> 5 [] c = "6" -> 6 [] c = "7" -> 7
      [] c = "8" -> 8 [] c = "9" -> 9

DigitChar(n) ==
    CASE n = 0 -> "0" [] n = 1 -> "1" [] n = 2 -> "2" [] n = 3 -> "3"
      [] n = 4 -> "4" [] n = 5 -> "5" [] n = 6 -> "6" [] n = 7 -> "7"
      [] n = 8 -> "8" [] n = 9 -> "9"

\* str.isdigit(): non-empty and every character is a digit character
\* (of any script).
str_isdigit(s) ==
    /\ Len(s) > 0
    /\ \A i \in 1..Len(s) : s[i] \in AsciiDigits \cup UnicodeDigits

PhoneLen == 10

\* Phone.__init__: the value is kept as given, or ValueError is raised.
Phone(value) ==
    IF str_isdigit(value) /\ Len(value) = PhoneLen
    THEN [raised |-> "None", value |-> value]
    ELSE [raised |-> "ValueError", value |-> <<>>]

----------------------------------------------------------------------------
(* Calendar: datetime.date *)

Date(y, m, d) == [year |-> y, month |-> m, day |-> d]

NullDate == Date(0, 0, 0)

IsLeap(y) == (y % 4 = 0) /\ ((y % 100 # 0) \/ (y % 400 = 0))

DaysInMonth(y, m) ==
    IF m = 2 THEN (IF IsLeap(y) THEN 29 ELSE 28)
    ELSE IF m \in {4, 6, 9, 11} THEN 30 ELSE 31

\* The date constructor accepts exactly these.
ValidDate(y, m, d) ==
    /\ y \in 1..9999
    /\ m \in 1..12
    /\ d \in 1..DaysInMonth(y, m)

RECURSIVE DaysBeforeMonth(_, _)
DaysBeforeMonth(y, m) ==
    IF m = 1 THEN 0 ELSE DaysBeforeMonth(y, m - 1) + DaysInMonth(y, m - 1)

\* date.toordinal(): 1 for 0001-01-01.
ToOrdinal(dt) ==
    LET y1 == dt.year - 1
    IN  y1 * 365 + (y1 \div 4) - (y1 \div 100) + (y1 \div 400)
          + DaysBeforeMonth(dt.year, dt.month) + dt.day

\* date.weekday(): Monday is 0, Sunday is 6.
Weekday(dt) == (ToOrdinal(dt) + 6) % 7

\* date < date
DateLess(a, b) ==
    \/ a.year < b.year
    \/ a.year = b.year /\ a.month < b.month
    \/ a.year = b.year /\ a.month = b.month /\ a.day < b.day

NextDay(dt) ==
    IF dt.day < DaysInMonth(dt.year, dt.month)
    THEN Date(dt.year, dt.month, dt.day + 1)
    ELSE IF dt.month < 12 THEN Date(dt.year, dt.month + 1, 1)
    ELSE Date(dt.year + 1, 1, 1)

\* date + timedelta(days=n), n >= 0
RECURSIVE AddDays(_, _)
AddDays(dt, n) == IF n = 0 THEN dt ELSE AddDays(NextDay(dt), n - 1)

\* date.replace(year=y): ValueError when the month/day does not exist in y.
ReplaceYear(dt, y) ==
    IF ValidDate(y, dt.month, dt.day)
    THEN [raised |-> "None", date |-> Date(y, dt.month, dt.day)]
    ELSE [raised |-> "ValueError", date |-> NullDate]

----------------------------------------------------------------------------
(* Birthday: datetime.strptime(value, "%d.%m.%Y") and strftime *)

RECURSIVE Num(_)
Num(s) == IF Len(s) = 0 THEN 0
          ELSE 10 * Num(SubSeq(s, 1, Len(s) - 1)) + DigitValue(s[Len(s)])

AllAsciiDigits(s) == \A i \in 1..Len(s) : s[i] \in AsciiDigits

\* What _strptime does with the format "%d.%m.%Y" on a string of ASCII
\* characters: the day is 3[0-1]|[1-2]\d|0[1-9]|[1-9], the month is
\* 1[0-2]|0[1-9]|[1-9], the year is \d\d\d\d, nothing may remain, and the
\* date must exist.
strptime(value) ==
    LET dots == {i \in 1..Len(value) : value[i] = "."}
        i1   == CHOOSE i \in dots : \A j \in dots : i <= j
        i2   == CHOOSE i \in dots : \A j \in dots : j <= i
        dd   == SubSeq(value, 1, i1 - 1)
        mm   == SubSeq(value, i1 + 1, i2 - 1)
        yyyy == SubSeq(value, i2 + 1, Len(value))
    IN  IF /\ Cardinality(dots) = 2
           /\ Len(dd) \in {1, 2} /\ AllAsciiDigits(dd) /\ Num(dd) \in 1..31
           /\ Len(mm) \in {1, 2} /\ AllAsciiDigits(mm) /\ Num(mm) \in 1..12
           /\ Len(yyyy) = 4 /\ AllAsciiDigits(yyyy)
           /\ ValidDate(Num(yyyy), Num(mm), Num(dd))
        THEN [raised |-> "None", date |-> Date(Num(yyyy), Num(mm), Num(dd))]
        ELSE [raised |-> "ValueError", date |-> NullDate]

\* Birthday.__init__: keeps the parsed date and the string as given.
Birthday(value) ==
    LET parsed == strptime(value)
    IN  IF parsed.raised = "None"
        THEN [raised |-> "None", value |-> value, date |-> parsed.date]
        ELSE [raised |-> "ValueError", value |-> <<>>, date |-> NullDate]

Digits2(n) == <<DigitChar(n \div 10), DigitChar(n % 10)>>

Digits4(n) == <<DigitChar(n \div 1000), DigitChar((n \div 100) % 10),
                DigitChar((n \div 10) % 10), DigitChar(n % 10)>>

\* date.strftime('%d.%m.%Y')
strftime(dt) == Digits2(dt.day) \o <<".">> \o Digits2(dt.month) \o <<".">>
                  \o Digits4(dt.year)

----------------------------------------------------------------------------
(* Record *)

\* Record.birthday = None
NoBirthday == [value |-> <<>>, date |-> NullDate]

\* Record.__init__
Record(name) == [name |-> name, phones |-> <<>>, birthday |-> NoBirthday]

\* Record.add_birthday with an instance of Birthday
Record_add_birthday(record, b) ==
    [record EXCEPT !.birthday = [value |-> b.value, date |-> b.date]]

\* Record.add_phone with insert(0, ...) in place of append.
Record_add_phone_first(record, value) ==
    LET p == Phone(value)
    IN  IF p.raised = "None"
        THEN [raised |-> "None",
              record |-> [record EXCEPT !.phones = <<p.value>> \o @]]
        ELSE [raised |-> "ValueError", record |-> record]

\* Record.add_phone: Phone(phone) may raise; otherwise append.
Record_add_phone(record, value) ==
    LET p == Phone(value)
    IN  IF p.raised = "None"
        THEN [raised |-> "None",
              record |-> [record EXCEPT !.phones = Append(@, p.value)]]
        ELSE [raised |-> "ValueError", record |-> record]

\* Record.edit_phone: the loop assigns phone.value for every phone whose
\* value equals old_phone; new_phone is stored as given.
Record_edit_phone(record, old_phone, new_phone) ==
    [record EXCEPT !.phones =
        [i \in 1..Len(@) |-> IF @[i] = old_phone THEN new_phone ELSE @[i]]]

\* Record.__str__, kept as the values the format string is filled with.
Record_str(record) == <<record.name, record.phones>>

----------------------------------------------------------------------------
(* AddressBook: a dict, modelled as the sequence of its values in
   insertion order *)

Keys(data) == {data[i].name : i \in 1..Len(data)}

KeyIndex(data, name) == CHOOSE i \in 1..Len(data) : data[i].name = name

\* AddressBook.find: None when the name is no key.
Has(data, name) == name \in Keys(data)

find(data, name) == data[KeyIndex(data, name)]

\* data[key] = value done as "remove the key, then insert": an existing key
\* moves to the end.
SetItem_moves_to_end(data, record) ==
    LET keep(r) == r.name # record.name
    IN  Append(SelectSeq(data, keep), record)

\* data[key] = value: a new key goes last, an existing key keeps its place.
SetItem(data, record) ==
    IF Has(data, record.name)
    THEN [data EXCEPT ![KeyIndex(data, record.name)] = record]
    ELSE Append(data, record)

\* AddressBook.add_record
add_record(data, record) == SetItem(data, record)

\* AddressBook.delete
delete(data, name) ==
    LET keep(r) == r.name # name
    IN  SelectSeq(data, keep)

\* The loop body of get_upcoming_birthdays without the weekend shift.
UpcomingItem_no_shift(record, today) ==
    LET this == ReplaceYear(record.birthday.date, today.year)
        next == ReplaceYear(this.date, today.year + 1)
        birthday_this_year ==
            IF DateLess(this.date, today) THEN next.date ELSE this.date
        days_to_birthday == ToOrdinal(birthday_this_year) - ToOrdinal(today)
        none == [raised |-> "None", items |-> <<>>]
    IN  IF record.birthday = NoBirthday THEN none
        ELSE IF this.raised # "None" THEN [raised |-> "ValueError", items |-> <<>>]
        ELSE IF DateLess(this.date, today) /\ next.raised # "None"
             THEN [raised |-> "ValueError", items |-> <<>>]
        ELSE IF 0 <= days_to_birthday /\ days_to_birthday < 8
             THEN [raised |-> "None",
                   items |-> <<[name |-> record.name,
                                congratulation_date |-> AddDays(today, days_to_birthday)]>>]
        ELSE none

\* One pass of the loop body of get_upcoming_birthdays for one record.
UpcomingItem(record, today) ==
    LET this == ReplaceYear(record.birthday.date, today.year)
        next == ReplaceYear(this.date, today.year + 1)
        birthday_this_year ==
            IF DateLess(this.date, today) THEN next.date ELSE this.date
        days_to_birthday == ToOrdinal(birthday_this_year) - ToOrdinal(today)
        shifted ==
            IF Weekday(birthday_this_year) >= 5
            THEN days_to_birthday + (7 - Weekday(birthday_this_year))
            ELSE days_to_birthday
        none == [raised |-> "None", items |-> <<>>]
    IN  IF record.birthday = NoBirthday THEN none
        ELSE IF this.raised # "None" THEN [raised |-> "ValueError", items |-> <<>>]
        ELSE IF DateLess(this.date, today) /\ next.raised # "None"
             THEN [raised |-> "ValueError", items |-> <<>>]
        ELSE IF 0 <= days_to_birthday /\ days_to_birthday < 8
             THEN [raised |-> "None",
                   items |-> <<[name |-> record.name,
                                congratulation_date |-> AddDays(today, shifted)]>>]
        ELSE none

\* AddressBook.get_upcoming_birthdays: the records in dict order; the first
\* exception ends the call.
RECURSIVE UpcomingFrom(_, _, _, _)
UpcomingFrom(data, i, today, acc) ==
    IF i > Len(data) THEN [raised |-> "None", list |-> acc]
    ELSE LET one == UpcomingItem(data[i], today)
         IN  IF one.raised # "None"
             THEN [raised |-> one.raised, list |-> <<>>]
             ELSE UpcomingFrom(data, i + 1, today, acc \o one.items)

get_upcoming_birthdays(data, today) == UpcomingFrom(data, 1, today, <<>>)

----------------------------------------------------------------------------
(* Command handlers.  Each yields the address book it leaves behind, the
   exception it raised ("None" when it returned) and the string returned. *)

Returned(data, message) == [book |-> data, raised |-> "None", ret |-> message]

Raised(data, exception) == [book |-> data, raised |-> exception, ret |-> <<>>]

\* A fixed message: the text and nothing to fill in.
Msg(text) == [text |-> text, data |-> <<>>]

\* add_contact
add_contact(args, data) ==
    IF Len(args) < 2 THEN Raised(data, "ValueError")
    ELSE
    LET name    == args[1]
        phone_  == args[2]
        isNew   == ~Has(data, name)
        data1   == IF isNew THEN add_record(data, Record(name)) ELSE data
        message == IF isNew THEN Msg("Contact added.") ELSE Msg("Contact updated.")
        added   == Record_add_phone(find(data1, name), phone_)
    IN  IF Len(phone_) = 0 THEN Returned(data1, message)
        ELSE IF added.raised # "None" THEN Raised(data1, added.raised)
        ELSE Returned(SetItem(data1, added.record), message)

\* change_contact without "if not record.phones: raise ValueError":
\* record.phones[0] raises IndexError on a contact without phones.
change_contact_no_phones_check(args, data) ==
    IF Len(args) < 2 THEN Raised(data, "ValueError")
    ELSE
    LET name      == args[1]
        new_phone == args[2]
        record    == find(data, name)
        old_phone == record.phones[1]
    IN  IF ~Has(data, name) THEN Raised(data, "KeyError")
        ELSE IF Len(record.phones) = 0 THEN Raised(data, "IndexError")
        ELSE IF old_phone # new_phone
             THEN Returned(SetItem(data, Record_edit_phone(record, old_phone, new_phone)),
                           Msg("Contact updated."))
        ELSE Returned(data, Msg("Phone number is already up to date."))

\* change_contact
change_contact(args, data) ==
    IF Len(args) < 2 THEN Raised(data, "ValueError")
    ELSE
    LET name      == args[1]
        new_phone == args[2]
        record    == find(data, name)
        old_phone == record.phones[1]
    IN  IF ~Has(data, name) THEN Raised(data, "KeyError")
        ELSE IF Len(record.phones) = 0 THEN Raised(data, "ValueError")
        ELSE IF old_phone # new_phone
             THEN Returned(SetItem(data, Record_edit_phone(record, old_phone, new_phone)),
                           Msg("Contact updated."))
        ELSE Returned(data, Msg("Phone number is already up to date."))

\* show_contact
show_contact(args, data) ==
    IF Len(args) # 1 THEN Raised(data, "IndexError")
    ELSE IF Has(data, args[1])
         THEN Returned(data, [text |-> "Contact name: {}, phones: {}",
                              data |-> Record_str(find(data, args[1]))])
    ELSE Raised(data, "KeyError")

\* show_all_contacts
show_all_contacts(data) ==
    IF Len(data) = 0 THEN Msg("No contacts found")
    ELSE [text |-> "Contact name: {}, phones: {}",
          data |-> [i \in 1..Len(data) |-> Record_str(data[i])]]

\* add_birthday
add_birthday(args, data) ==
    IF Len(args) < 2 THEN Raised(data, "ValueError")
    ELSE
    LET name     == args[1]
        isNew    == ~Has(data, name)
        data1    == IF isNew THEN add_record(data, Record(name)) ELSE data
        message  == IF isNew THEN Msg("Contact added.") ELSE Msg("Contact updated.")
        birthday == Birthday(args[2])
    IN  IF birthday.raised # "None" THEN Raised(data1, "ValueError")
        ELSE Returned(SetItem(data1, Record_add_birthday(find(data1, name), birthday)),
                      message)

\* show_birthday
show_birthday(args, data) ==
    IF Len(args) < 1 THEN Raised(data, "IndexError")
    ELSE IF ~Has(data, args[1]) THEN Raised(data, "KeyError")
    ELSE IF find(data, args[1]).birthday # NoBirthday
         THEN Returned(data, [text |-> "{}'s birthday is on {}",
                              data |-> <<args[1], find(data, args[1]).birthday.value>>])
    ELSE Returned(data, [text |-> "No birthday information for {}.",
                         data |-> <<args[1]>>])

\* next_week_birthday, given what get_upcoming_birthdays returned
next_week_birthday(upcoming_birthdays) ==
    IF Len(upcoming_birthdays) > 0
    THEN [text |-> "{}'s birthday is on {}",
          data |-> [i \in 1..Len(upcoming_birthdays) |->
                       <<upcoming_birthdays[i].name,
                         strftime(upcoming_birthdays[i].congratulation_date)>>]]
    ELSE Msg("No birthdays in the next week.")

\* input_error: what the wrapped handler's call evaluates to.
input_error(r) ==
    CASE r.raised = "None"       -> r.ret
      [] r.raised = "ValueError" -> Msg("Give me name and phone please.")
      [] r.raised = "IndexError" -> Msg("Enter contact Name please.")
      [] r.raised = "KeyError"   -> Msg("Contact not found")

----------------------------------------------------------------------------
(* Inputs *)

\* The most phones the contacts of the book hold together (add is explored
\* no further).
MaxPhones == 2

\* The longest string handed to Phone(...) on its own.
MaxRawLen == 11

Names == {"Alice", "Bob"}

P1 == <<"1", "2", "3", "4", "5", "6", "7", "8", "9", "0">>

P2 == <<"1", "2", "3", "4", "5", "6", "7", "8", "9", "9">>

PShort == <<"1", "2", "3">>

PhoneArgs == {P1, P2, PShort}

\* 15.06.2024 is a Saturday; 29.02.2024 exists only in leap years;
\* 31.02.2024 is well-formed text but no date.
BirthdayArgs == {strftime(Date(2024, 6, 15)), strftime(Date(2024, 2, 29)),
                 strftime(Date(2024, 2, 31))}

\* The clock readings the command loop is explored with: a day of a leap
\* year 3 days before 29.02, and a day of a year that is not a leap year,
\* 3 days before 15.06.
Todays == {Date(2024, 2, 26), Date(2023, 6, 12)}

\* str.lower() on the command words typed.
Lower(word) ==
    CASE word = "ADD"  -> "add"
      [] word = "Exit" -> "exit"
      [] OTHER         -> word

CommandWords == {"hello", "add", "ADD", "change", "phone", "all", "add-birthday",
                 "show-birthday", "birthdays", "close", "exit", "Exit", "remove"}

\* Lines of input, as str.split() leaves them: the empty (or all-blank)
\* line, a command word alone, and command words with one to three
\* arguments.  Alice is given every phone and birthday argument; Bob, the
\* second contact, a valid phone and the leap-day birthday.
Lines ==
    {<<>>}
      \cup {<<w>> : w \in CommandWords}
      \cup {<<w, "Alice">> : w \in {"add", "change", "add-birthday"}}
      \cup {<<w, n>> : w \in {"phone", "show-birthday"}, n \in Names}
      \cup {<<w, "Alice", p>> : w \in {"add", "ADD", "change"}, p \in PhoneArgs}
      \cup {<<"add", "Bob", P1>>, <<"change", "Bob", P1>>}
      \cup {<<"add-birthday", "Alice", b>> : b \in BirthdayArgs}
      \cup {<<"add-birthday", "Bob", strftime(Date(2024, 2, 29))>>}
      \cup {<<"phone", n, n>> : n \in Names}
      \cup {<<"add", "Alice", P1, P2>>}

\* parse_input: cmd, *args = user_input.split() raises ValueError when
\* there is no token.
parse_input(line) ==
    IF Len(line) = 0
    THEN [raised |-> "ValueError", cmd |-> "", args |-> <<>>]
    ELSE [raised |-> "None", cmd |-> Lower(line[1]), args |-> Tail(line)]

KnownCommands == {"close", "exit", "hello", "add", "change", "phone", "all",
                  "add-birthday", "show-birthday", "birthdays"}

\* Strings Phone(...) is probed with: up to MaxRawLen copies of "1", with at
\* most one character replaced by another digit, a digit of another script,
\* or a character that is no digit.
RawStrings ==
    LET ones(n) == [i \in 1..n |-> "1"]
    IN  {ones(n) : n \in 0..MaxRawLen}
          \cup UNION {{[ones(n) EXCEPT ![k] = c] :
                          k \in 1..n, c \in {"7"} \cup UnicodeDigits \cup OtherChars} :
                      n \in 1..MaxRawLen}

\* Clock readings and birthdays the birthday query is explored with on
\* its own: every day of these months of a year that is not a leap year
\* and of a leap year, and every month/day of these months.
QueryYears == {2023, 2024}

QueryMonths == {1, 2, 3, 6, 12}

QueryTodays ==
    {dt \in [year : QueryYears, month : QueryMonths, day : 1..31] :
        ValidDate(dt.year, dt.month, dt.day)}

QueryBirthdays ==
    {dt \in [year : {2000}, month : QueryMonths, day : 1..31] :
        ValidDate(dt.year, dt.month, dt.day)}

----------------------------------------------------------------------------
(* History of insertions into the dict, kept beside the program's state *)

NewKeys(data, data1) ==
    LET isNew(r) == ~Has(data, r.name)
        new == SelectSeq(data1, isNew)
    IN  [i \in 1..Len(new) |-> new[i].name]

FirstInsertedAfter(data, data1) ==
    LET unseen(n) == \A i \in 1..Len(firstInserted) : firstInserted[i] # n
    IN  firstInserted \o SelectSeq(NewKeys(data, data1), unseen)

LastInsertedAfter(data, data1) ==
    LET stays(n) == Has(data, n) /\ Has(data1, n)
    IN  SelectSeq(lastInserted, stays) \o NewKeys(data, data1)

History(data, data1) ==
    IF data1 = data
    THEN UNCHANGED <<firstInserted, lastInserted>>
    ELSE /\ firstInserted' = FirstInsertedAfter(data, data1)
         /\ lastInserted' = LastInsertedAfter(data, data1)

----------------------------------------------------------------------------
(* main(): one action per branch of the command loop *)

NotConstructed == [raised |-> "not constructed", value |-> <<>>]

\* main() up to its first input(): an empty AddressBook and the greeting.
Started ==
    /\ book = <<>>
    /\ output = Msg("Welcome to the assistant bot!")
    /\ pc = "prompt"
    /\ command = ""
    /\ main_args = <<>>
    /\ current_date = NullDate
    /\ congratulation_list = <<>>
    /\ firstInserted = <<>>
    /\ lastInserted = <<>>

Init ==
    /\ Started
    /\ raw = <<>>
    /\ phone = NotConstructed

\* input() returned `line` and parse_input split it into cmd and args.
Read(line, cmd) ==
    /\ pc = "prompt"
    /\ parse_input(line).raised = "None"
    /\ parse_input(line).cmd = cmd
    /\ command' = cmd
    /\ main_args' = parse_input(line).args

\* print(handler(args, book)) for a handler wrapped by input_error
Handled(r) ==
    /\ book' = r.book
    /\ output' = input_error(r)
    /\ History(book, r.book)
    /\ current_date' = NullDate
    /\ congratulation_list' = <<>>
    /\ UNCHANGED <<pc, raw, phone>>

\* print(message) by a branch that leaves the book alone
Printed(message) ==
    /\ output' = message
    /\ current_date' = NullDate
    /\ congratulation_list' = <<>>
    /\ UNCHANGED <<book, pc, firstInserted, lastInserted, raw, phone>>

\* The line has no token: parse_input raises ValueError inside main().
EmptyLine ==
    \E line \in Lines :
        /\ pc = "prompt"
        /\ parse_input(line).raised # "None"
        /\ pc' = "crashed"
        /\ current_date' = NullDate
        /\ congratulation_list' = <<>>
        /\ UNCHANGED <<book, output, command, main_args, firstInserted, lastInserted,
                       raw, phone>>

Close ==
    \E line \in Lines, cmd \in {"close", "exit"} :
        /\ Read(line, cmd)
        /\ output' = Msg("Good bye!")
        /\ pc' = "exited"
        /\ current_date' = NullDate
        /\ congratulation_list' = <<>>
        /\ UNCHANGED <<book, firstInserted, lastInserted, raw, phone>>

Hello ==
    \E line \in Lines :
        /\ Read(line, "hello")
        /\ Printed(Msg("How can I help you?"))

RECURSIVE TotalPhones(_)
TotalPhones(data) ==
    IF Len(data) = 0 THEN 0
    ELSE Len(data[1].phones) + TotalPhones(Tail(data))

\* The bound on the phones of the book: add with a name and a phone is not
\* explored once the book holds MaxPhones phones.
WithinBound(args) == Len(args) >= 2 => TotalPhones(book) < MaxPhones

AddWith(line) ==
    /\ Read(line, "add")
    /\ WithinBound(Tail(line))
    /\ Handled(add_contact(parse_input(line).args, book))

Add == \E line \in Lines : AddWith(line)

ChangeWith(line) ==
    /\ Read(line, "change")
    /\ Handled(change_contact(parse_input(line).args, book))

Change == \E line \in Lines : ChangeWith(line)

ShowPhone ==
    \E line \in Lines :
        /\ Read(line, "phone")
        /\ Handled(show_contact(parse_input(line).args, book))

ShowAll ==
    \E line \in Lines :
        /\ Read(line, "all")
        /\ Printed(show_all_contacts(book))

AddBirthdayWith(line) ==
    /\ Read(line, "add-birthday")
    /\ Handled(add_birthday(parse_input(line).args, book))

AddBirthday == \E line \in Lines : AddBirthdayWith(line)

ShowBirthday ==
    \E line \in Lines :
        /\ Read(line, "show-birthday")
        /\ Handled(show_birthday(parse_input(line).args, book))

\* print(next_week_birthday(book)): neither function is wrapped by
\* input_error, so an exception of get_upcoming_birthdays leaves main().
BirthdaysOn(today) ==
    \E line \in Lines :
        /\ Read(line, "birthdays")
        /\ current_date' = today
        /\ LET r == get_upcoming_birthdays(book, today)
           IN  IF r.raised = "None"
               THEN /\ congratulation_list' = r.list
                    /\ output' = next_week_birthday(r.list)
                    /\ pc' = "prompt"
               ELSE /\ congratulation_list' = <<>>
                    /\ pc' = "crashed"
                    /\ UNCHANGED output
        /\ UNCHANGED <<book, firstInserted, lastInserted, raw, phone>>

Birthdays == \E today \in Todays : BirthdaysOn(today)

Invalid ==
    \E line \in Lines :
        /\ pc = "prompt"
        /\ parse_input(line).raised = "None"
        /\ parse_input(line).cmd \notin KnownCommands
        /\ command' = parse_input(line).cmd
        /\ main_args' = parse_input(line).args
        /\ Printed(Msg("Invalid command."))

Next ==
    \/ EmptyLine
    \/ Close
    \/ Hello
    \/ Add
    \/ Change
    \/ ShowPhone
    \/ ShowAll
    \/ AddBirthday
    \/ ShowBirthday
    \/ Birthdays
    \/ Invalid

Spec == Init /\ [][Next]_vars

----------------------------------------------------------------------------
(* The address book used directly: the command loop and AddressBook.delete *)

Delete ==
    \E name \in Names :
        /\ pc = "prompt"
        /\ book' = delete(book, name)
        /\ History(book, delete(book, name))
        /\ current_date' = NullDate
        /\ congratulation_list' = <<>>
        /\ UNCHANGED <<output, pc, command, main_args, raw, phone>>

BookNext ==
    \/ Next
    \/ Delete

BookSpec == Init /\ [][BookNext]_vars

----------------------------------------------------------------------------
(* Phone(...) on its own *)

PhoneInit ==
    /\ Started
    /\ raw \in RawStrings
    /\ phone = NotConstructed

Construct ==
    /\ phone = NotConstructed
    /\ phone' = Phone(raw)
    /\ UNCHANGED <<book, output, pc, command, main_args, current_date,
                   congratulation_list, firstInserted, lastInserted, raw>>

PhoneSpec == PhoneInit /\ [][Construct]_vars

----------------------------------------------------------------------------
(* The birthdays command on its own, over books that add-birthday builds *)

\* The lines typed before the query: add-birthday for Alice and, unless
\* bobs is NullDate, add-birthday for Bob.
BirthdayLines(alice, bobs) ==
    <<<<"add-birthday", "Alice", strftime(alice)>>>>
      \o (IF bobs = NullDate THEN <<>>
          ELSE <<<<"add-birthday", "Bob", strftime(bobs)>>>>)

RECURSIVE BirthdayBook(_)
BirthdayBook(lines) ==
    IF Len(lines) = 0 THEN <<>>
    ELSE add_birthday(Tail(lines[Len(lines)]),
                      BirthdayBook(SubSeq(lines, 1, Len(lines) - 1))).book

BirthdayInit ==
    /\ \E alice \in QueryBirthdays, bobs \in {NullDate, Date(1990, 3, 3)} :
          /\ book = BirthdayBook(BirthdayLines(alice, bobs))
          /\ main_args = Tail(BirthdayLines(alice, bobs)[Len(BirthdayLines(alice, bobs))])
          /\ firstInserted = [i \in 1..Len(book) |-> book[i].name]
          /\ lastInserted = firstInserted
    /\ output = Msg("Contact added.")
    /\ pc = "prompt"
    /\ command = "add-birthday"
    /\ current_date = NullDate
    /\ congratulation_list = <<>>
    /\ raw = <<>>
    /\ phone = NotConstructed

\* One query per book.
BirthdayNext ==
    /\ command # "birthdays"
    /\ \E today \in QueryTodays : BirthdaysOn(today)

BirthdaySpec == BirthdayInit /\ [][BirthdayNext]_vars

----------------------------------------------------------------------------
(* Properties *)

\* What the specification calls a valid phone: exactly 10 ASCII digits.
TenAsciiDigits(s) == Len(s) = 10 /\ \A i \in 1..Len(s) : s[i] \in AsciiDigits

\* C1: in every state the command loop reaches, every phone stored in
\* every contact is a string of exactly 10 decimal digits.
StoredPhonesAreTenDigits ==
    \A i \in 1..Len(book) :
        \A j \in 1..Len(book[i].phones) : TenAsciiDigits(book[i].phones[j])

\* C2: change <name> <phone> on a contact that has phones replaces the
\* first phone of that contact and nothing else: every other phone of the
\* contact (later duplicates of the old value included), every other
\* contact, the order and the lengths stay as they were.
ChangeReplacesOnlyFirstMatch ==
    [][\A line \in Lines :
          (/\ ChangeWith(line)
           /\ Len(line) >= 3
           /\ Has(book, line[2])
           /\ Len(find(book, line[2]).phones) > 0)
          => book' = [book EXCEPT ![KeyIndex(book, line[2])].phones[1] = line[3]]]_vars

\* C3: no input line is fatal: the command loop never leaves main() through
\* an exception; it ends only on close or exit.
NoInputLineIsFatal == pc # "crashed"

\* The next occurrence of a birthday's month/day as the specification
\* defines it: in today's year if that date is not before today, otherwise
\* in today's year + 1.  It is defined when the dates it names exist.
OccurrenceDefined(birthday, today) ==
    /\ ValidDate(today.year, birthday.month, birthday.day)
    /\ DateLess(Date(today.year, birthday.month, birthday.day), today)
          => ValidDate(today.year + 1, birthday.month, birthday.day)

NextOccurrence(birthday, today) ==
    IF DateLess(Date(today.year, birthday.month, birthday.day), today)
    THEN Date(today.year + 1, birthday.month, birthday.day)
    ELSE Date(today.year, birthday.month, birthday.day)

DaysAhead(birthday, today) ==
    ToOrdinal(NextOccurrence(birthday, today)) - ToOrdinal(today)

Listed(name) ==
    \E k \in 1..Len(congratulation_list) : congratulation_list[k].name = name

WithinSevenDays(record) ==
    IF record.birthday = NoBirthday THEN ~Listed(record.name)
    ELSE OccurrenceDefined(record.birthday.date, current_date)
            => (Listed(record.name)
                  <=> DaysAhead(record.birthday.date, current_date) \in 0..7)

\* C4: after the birthdays query, a contact is listed if and only if it has
\* a birthday whose next occurrence is 0 to 7 days after today (contacts
\* whose month/day does not exist in the year concerned are left
\* unconstrained).
UpcomingIffWithinSevenDays ==
    command = "birthdays" => \A i \in 1..Len(book) : WithinSevenDays(book[i])

\* C4, the part the code satisfies: whenever get_upcoming_birthdays returns,
\* a contact is listed if and only if it has a birthday whose next
\* occurrence is 0 to 7 days after today.
UpcomingIffWithinSevenDaysWhenReturned ==
    (command = "birthdays" /\ pc = "prompt")
        => \A i \in 1..Len(book) : WithinSevenDays(book[i])

\* A birthday 7 days out was listed and one 8 days out was not.
UpcomingWindowEdgeReached ==
    /\ command = "birthdays" /\ pc = "prompt" /\ Len(book) = 2
    /\ DaysAhead(book[1].birthday.date, current_date) = 8
    /\ DaysAhead(book[2].birthday.date, current_date) = 7
    /\ Listed(book[2].name) /\ ~Listed(book[1].name)

CongratulationDateOf(item) ==
    LET occurrence == NextOccurrence(find(book, item.name).birthday.date, current_date)
        date == item.congratulation_date
    IN  /\ Weekday(occurrence) <= 4 => date = occurrence
        /\ Weekday(occurrence) = 5 => date = AddDays(occurrence, 2)
        /\ Weekday(occurrence) = 6 => date = AddDays(occurrence, 1)
        /\ Weekday(date) \notin {5, 6}
        /\ ~DateLess(date, current_date)

\* C5: every listed contact's congratulation date is the birthday's next
\* occurrence when that is a Monday to Friday, and the Monday after it when
\* it is a Saturday (+2 days) or a Sunday (+1 day); no congratulation date
\* is a Saturday or a Sunday and none is before today.
CongratulationDateIsShiftedToMonday ==
    command = "birthdays"
        => \A k \in 1..Len(congratulation_list) :
              CongratulationDateOf(congratulation_list[k])

\* A listed birthday fell on a Saturday and one on a Sunday.
WeekendBirthdayListed ==
    /\ command = "birthdays"
    /\ Len(congratulation_list) = 2
    /\ Weekday(NextOccurrence(book[1].birthday.date, current_date)) = 5
    /\ Weekday(NextOccurrence(book[2].birthday.date, current_date)) = 6

\* C6: add <name> <valid phone> on a name that is not in the book returns
\* "Contact added." and creates one contact whose phones are [phone]; on a
\* name in the book it returns "Contact updated.", keeps the number of
\* contacts and appends the phone to that contact's phones.
AddCreatesOnceThenAppends ==
    [][\A line \in Lines :
          (AddWith(line) /\ Len(line) >= 3 /\ TenAsciiDigits(line[3]))
          => IF ~Has(book, line[2])
             THEN /\ output' = Msg("Contact added.")
                  /\ book' = Append(book, [name |-> line[2], phones |-> <<line[3]>>,
                                           birthday |-> NoBirthday])
             ELSE /\ output' = Msg("Contact updated.")
                  /\ Len(book') = Len(book)
                  /\ book' = [book EXCEPT ![KeyIndex(book, line[2])].phones =
                                              Append(@, line[3])]]_vars

\* A second add of the same name appended a second phone.
SecondAddAppended ==
    /\ command = "add"
    /\ main_args = <<"Alice", P2>>
    /\ output = Msg("Contact updated.")
    /\ Len(book) = 2
    /\ find(book, "Alice").phones = <<P1, P2>>

\* C7: change <name> <phone> on a name that is not in the book prints
\* "Contact not found"; on a contact without phones it prints "Give me name
\* and phone please."; the address book is left as it was in both cases.
ChangeWithoutTargetFails ==
    [][\A line \in Lines :
          (ChangeWith(line) /\ Len(line) >= 3)
          => /\ ~Has(book, line[2])
                  => output' = Msg("Contact not found") /\ book' = book
             /\ (Has(book, line[2]) /\ Len(find(book, line[2]).phones) = 0)
                  => output' = Msg("Give me name and phone please.") /\ book' = book]_vars

\* change was given a name and a phone for a contact without phones.
ChangeOnContactWithoutPhones ==
    /\ command = "change"
    /\ Len(main_args) = 2
    /\ Has(book, main_args[1])
    /\ Len(find(book, main_args[1]).phones) = 0
    /\ output = Msg("Give me name and phone please.")

\* C8: Phone(raw) succeeds if and only if raw is exactly 10 ASCII digits,
\* and an accepted value is stored as given.
PhoneAcceptsExactlyTenAsciiDigits ==
    phone # NotConstructed
        => /\ phone.raised = "None" <=> TenAsciiDigits(raw)
           /\ phone.raised = "None" => phone.value = raw

Position(order, name) == CHOOSE i \in 1..Len(order) : order[i] = name

ListedInOrder(order) ==
    \A k1, k2 \in 1..Len(congratulation_list) :
        k1 < k2 => Position(order, congratulation_list[k1].name)
                     < Position(order, congratulation_list[k2].name)

OneEntryPerBirthday ==
    /\ \A k1, k2 \in 1..Len(congratulation_list) :
          congratulation_list[k1].name = congratulation_list[k2].name => k1 = k2
    /\ \A k \in 1..Len(congratulation_list) :
          /\ Has(book, congratulation_list[k].name)
          /\ find(book, congratulation_list[k].name).birthday # NoBirthday

\* C9 as stated: after any add, add-birthday and delete operations the
\* query lists at most one entry per name, none for a contact without a
\* birthday, in the order in which the names were first inserted.
UpcomingInFirstInsertionOrder ==
    command = "birthdays" => OneEntryPerBirthday /\ ListedInOrder(firstInserted)

\* C9 as amended: ... in the order in which the contacts now in the book
\* were inserted, where a name that was deleted and added again counts from
\* the insertion after its deletion; updates of a contact in the book do
\* not move it.
UpcomingInInsertionOrder ==
    command = "birthdays" => OneEntryPerBirthday /\ ListedInOrder(lastInserted)

\* Two contacts were listed after one of them had been deleted and added
\* again.
ListedAfterReinsertion ==
    /\ command = "birthdays"
    /\ Len(congratulation_list) = 2
    /\ firstInserted # lastInserted

ErrorTexts == {"Give me name and phone please.", "Enter contact Name please.",
               "Contact not found"}

\* C10: an add or add-birthday command that prints an error message leaves
\* the address book exactly as it was.
FailedAddLeavesBookUnchanged ==
    [][\A line \in Lines :
          ((AddWith(line) \/ AddBirthdayWith(line)) /\ output'.text \in ErrorTexts)
          => book' = book]_vars

====
